---- MODULE Spec2Model ----
(***************************************************************************)
(* Model of owtorg/logger: the Logger backends (FmtLog, StdLog, FileLog),  *)
(* the LogBase callback list and the Stack composite.                      *)
(*                                                                         *)
(* One action per exported operation.  An action models the whole call,    *)
(* including every nested Init, callback and forwarded Log it performs.    *)
(* The variable `last` is a history record of the most recent call: what   *)
(* it was, what it returned, and the calls and writes it performed.        *)
(* Spec is logging through backends and stacks that carry no callbacks;    *)
(* SpecSetup is the initialization protocol (OnInit, Init, Add, Set) on    *)
(* one stack; SpecInit is OnInit and Init on every kind of logger;         *)
(* SpecLevels is every severity method on every backend; SpecFile is a     *)
(* file logger configured and written to; SpecRace is Add called from two  *)
(* goroutines that share a stack.                                          *)
(*                                                                         *)
(* Slices are modelled as sequence values: a caller's slice handed to Set  *)
(* is not kept by the caller.  Values passed to Add and Set are Loggers.   *)
(* A Stack is only ever given Stacks of lower rank as members, so the      *)
(* composites are well founded.  The opaque values v... of a logging call  *)
(* are passed through unchanged by every method and are left out.          *)
(***************************************************************************)
EXTENDS Naturals, Sequences, FiniteSets, TLC

\* ------------------------------------------------------------ bounds
\* Longest member sequence a caller builds with Add or Set.
MaxMembers == 2
\* Longest argument list of one Add or Set call.
MaxArgs == 2
\* Most instances that carry registered callbacks at one time.
MaxConfigured == 1

\* ------------------------------------------------------------ universe
\* The logger instances of a run (each made with new(T)).
FmtLogs == {"fmt"}
StdLogs == {"std"}
FileLogs == {"file"}
Stacks == {"S", "T"}
Leaves == FmtLogs \cup StdLogs \cup FileLogs
Insts == Leaves \cup Stacks

\* The zero value of an interface{} slot.
Nil == "nil"

\* A stack may be given stacks of lower rank as members.
Rank(i) == IF i = "S" THEN 2 ELSE IF i = "T" THEN 1 ELSE 0

\* The instances a run of the composite uses.
Used == StdLogs \cup FileLogs \cup Stacks

Candidates(s) == {i \in Insts : Rank(i) < Rank(s)}

\* The instances of a run with a single stack.
Flat == Used \ {"T"}

\* The instances of a run with every backend and a single stack.
Backends == Leaves \cup {"S"}

\* The instances of a run with a file logger, alone and on a stack.
Filed == FileLogs \cup {"S"}

\* The instances that can be a member of a stack.
Members == UNION {Candidates(s) : s \in Stacks}

\* Callbacks are named by their Go type: the parameter type of the func.
\*   "FmtLog"  func(s *FmtLog)      "StdLog"  func(s *StdLog)
\*   "FileLog" func(s *FileLog)     "Logger"  func(s Logger)
\*   "Stack"   func(s *Stack)
Callbacks == {"FmtLog", "StdLog", "FileLog", "Logger", "Stack"}

\* The type the comment on Stack.Init asks for: the instance's own type.
ExpectedOwnType(i) ==
    IF i \in FmtLogs THEN "FmtLog"
    ELSE IF i \in StdLogs THEN "StdLog"
    ELSE IF i \in FileLogs THEN "FileLog"
    ELSE "Stack"

\* The type the error text of FmtLog.Init and StdLog.Init asks for.
ExpectedLogger(i) == "Logger"

\* The type a callback must have for Init of instance i to accept it.
Expected(i) ==
    IF i \in FmtLogs THEN "FmtLog"
    ELSE IF i \in StdLogs THEN "StdLog"
    ELSE IF i \in FileLogs THEN "FileLog"
    ELSE "Logger"

\* A callback type Init of i rejects, as a caller would plausibly register:
\* the leaf error text asks for func(s Logger), Stack.Init's comment for
\* func(s *Stack).
Rejected(i) == IF i \in Stacks THEN "Stack" ELSE "Logger"

\* The callback lists a caller registers on instance i.
CallbackLists(i) ==
    { <<>>, <<Expected(i)>>, <<Rejected(i)>>, <<Expected(i), Expected(i)>>,
      <<Expected(i), Rejected(i)>>, <<Rejected(i), Expected(i)>> }

NoPath == ""
DefaultPath == "./owtorg-logger"
CustomPath == "./test/output/testfile"

\* The logger a func(s Logger) callback of a Stack adds to that stack.
CallbackLogger == "std"

Severities == {"Emergency"}

\* The severity methods of a Logger.
Methods ==
    {"Emergency", "Alert", "Critical", "Error", "Warning", "Notice", "Info", "Debug"}

\* The label each severity method of a backend passes to Log.
SeverityLabel(method) ==
    CASE method = "Emergency" -> "Emergency"
      [] method = "Alert" -> "Alert"
      [] method = "Critical" -> "Critical"
      [] method = "Error" -> "Error"
      [] method = "Warning" -> "Warning"
      [] method = "Notice" -> "Notice"
      [] method = "Info" -> "Info"
      [] method = "Debug" -> "Debug"
Levels == {"custom level"}

NoError == "nil"
InvalidCallbackSignature == "Init callbacks must have signature"

\* The elements of a sequence.
Range(seq) == {seq[k] : k \in DOMAIN seq}

\* Sequences over S of length at most n.
RECURSIVE SeqsUpTo(_, _)
SeqsUpTo(S, n) ==
    IF n = 0 THEN { <<>> }
    ELSE LET shorter == SeqsUpTo(S, n - 1)
         IN shorter \cup { Append(q, x) : q \in {r \in shorter : Len(r) = n - 1}, x \in S }

\* ------------------------------------------------------------ state
VARIABLES
    initializers,   \* LogBase.initializers of every instance
    loggers,        \* Stack.loggers of every stack
    logPath,        \* FileLog.logPath of every file logger
    logOutput,      \* the output of the log package's standard logger
    inited,         \* history: Init has been invoked on the member
    last,           \* history: the most recent call
    adding          \* the Add call in progress in each goroutine

vars == <<initializers, loggers, logPath, logOutput, inited, last, adding>>

\* ------------------------------------------------------------ Init and callbacks
\* The state a call threads through its nested calls:
\*   loggers, logPath, inited   as the variables
\*   err      the return value of the Init that returned last
\*   inits    the instances Init was invoked on, in order
\*   errs     the instances whose Init returned an error, in order
\*   cbRuns   <<instance, position>> of every callback invoked, in order
\*   resets   <<stack, members>> right after each Stack.Init reset
RECURSIVE InitOp(_, _), InitFrom(_, _, _), RunCallback(_, _, _), InitAll(_, _, _), AddOp(_, _, _)

\* The reset Stack.Init performs on the member sequence.
ResetMembers == <<Nil>>

\* The body of one accepted callback, applied to instance i.
RunCallback(st, i, k) ==
    LET cb == initializers[i][k]
        ran == [st EXCEPT !.cbRuns = Append(@, <<i, k>>)]
    IN IF cb = "FileLog" THEN [ran EXCEPT !.logPath[i] = CustomPath]
       ELSE IF cb = "Logger" THEN AddOp(ran, i, <<CallbackLogger>>)
       ELSE ran

\* The loop of Init, going on to the next callback after a rejected one.
InitFromContinue(st, i, k) ==
    IF k > Len(initializers[i]) THEN [st EXCEPT !.err = NoError]
    ELSE IF initializers[i][k] # Expected(i)
         THEN InitFrom(st, i, k + 1)
         ELSE InitFrom(RunCallback(st, i, k), i, k + 1)

\* The loop of Init over initializers[i], from position k.
InitFrom(st, i, k) ==
    IF k > Len(initializers[i]) THEN [st EXCEPT !.err = NoError]
    ELSE IF initializers[i][k] # Expected(i)
         THEN [st EXCEPT !.err = InvalidCallbackSignature]
         ELSE InitFrom(RunCallback(st, i, k), i, k + 1)

\* Init that checks every callback before it changes anything.
InitOpAllOrNothing(st, i) ==
    LET entered == [st EXCEPT !.inits = Append(@, i),
                                 !.inited = IF i \in Members
                                            THEN [@ EXCEPT ![i] = TRUE] ELSE @]
        prepared ==
            IF i \in FileLogs THEN [entered EXCEPT !.logPath[i] = DefaultPath]
            ELSE IF i \in Stacks
                 THEN [entered EXCEPT !.loggers[i] = ResetMembers,
                                      !.resets = Append(@, <<i, ResetMembers>>)]
                 ELSE entered
    IN IF \E k \in DOMAIN initializers[i] : initializers[i][k] # Expected(i)
       THEN [entered EXCEPT !.err = InvalidCallbackSignature, !.errs = Append(@, i)]
       ELSE InitFrom(prepared, i, 1)

\* Init of a FileLog that keeps the path it has.
InitOpKeepPath(st, i) ==
    LET entered == [st EXCEPT !.inits = Append(@, i),
                                 !.inited = IF i \in Members
                                            THEN [@ EXCEPT ![i] = TRUE] ELSE @]
        prepared ==
            IF i \in Stacks
            THEN [entered EXCEPT !.loggers[i] = ResetMembers,
                                 !.resets = Append(@, <<i, ResetMembers>>)]
            ELSE entered
        done == InitFrom(prepared, i, 1)
    IN IF done.err # NoError THEN [done EXCEPT !.errs = Append(@, i)] ELSE done

\* FmtLog.Init, StdLog.Init, FileLog.Init, Stack.Init.
InitOp(st, i) ==
    LET entered == [st EXCEPT !.inits = Append(@, i),
                                 !.inited = IF i \in Members
                                            THEN [@ EXCEPT ![i] = TRUE] ELSE @]
        prepared ==
            IF i \in FileLogs THEN [entered EXCEPT !.logPath[i] = DefaultPath]
            ELSE IF i \in Stacks
                 THEN [entered EXCEPT !.loggers[i] = ResetMembers,
                                      !.resets = Append(@, <<i, ResetMembers>>)]
                 ELSE entered
        done == InitFrom(prepared, i, 1)
    IN IF done.err # NoError THEN [done EXCEPT !.errs = Append(@, i)] ELSE done

\* The loop "for _, v := range l { v.(Logger).Init() }" from position k.
InitAll(st, l, k) ==
    IF k > Len(l) THEN st ELSE InitAll(InitOp(st, l[k]), l, k + 1)

\* Stack.Add without the Init loop.
AddOpNoInit(st, s, l) == [st EXCEPT !.loggers[s] = @ \o l]

\* Stack.Add
AddOp(st, s, l) ==
    LET initialized == InitAll(st, l, 1)
    IN [initialized EXCEPT !.loggers[s] = @ \o l]

\* Stack.Set
SetOp(st, s, l) ==
    InitAll([st EXCEPT !.loggers[s] = l], l, 1)

\* The threaded state at the start of a call.
Enter ==
    [loggers |-> loggers, logPath |-> logPath, inited |-> inited,
     err |-> NoError, inits |-> <<>>, errs |-> <<>>, cbRuns |-> <<>>, resets |-> <<>>]

\* ------------------------------------------------------------ logging
\* The state a logging call threads through the calls it forwards:
\*   out       the output of the standard logger
\*   calls     [by, to, method, level] of every forwarded call, in order
\*   writes    [by, medium, level] of every line written, in order
\*   panicked  the call is unwinding from a panic
\*   openFailed  a FileLog.Log could not open its file
\*   open      the file loggers that hold an open file handle
RECURSIVE LogOp(_, _, _, _, _), Forward(_, _, _, _, _, _)

\* A backend whose severity methods pass their argument on as the label.
LabelOfLevel(method, level) == level

\* The label a method of a backend passes to its own Log.
LabelOf(method, level) == IF method = "Log" THEN level ELSE SeverityLabel(method)

\* FmtLog.Log: fmt.Println
FmtLogLog(lg, i, label) ==
    [lg EXCEPT !.writes = Append(@, [by |-> i, medium |-> "stdout", level |-> label])]

\* StdLog.Log: log.Println on the standard logger; a write to a closed file
\* fails and the error is dropped.
StdLogLog(lg, i, label) ==
    IF lg.out = "closed" THEN lg
    ELSE [lg EXCEPT !.writes = Append(@, [by |-> i, medium |-> lg.out, level |-> label])]

\* FileLog.Log returning with the file still open.
LeftOpen(lg, i) == lg

\* The deferred s.f.Close(): the handle is released, and the standard logger
\* is left writing to a closed file.
Closed(lg, i) == [lg EXCEPT !.open = @ \ {i}, !.out = "closed"]

\* FileLog.Log: open, log.SetOutput, log.Println, deferred Close.
FileLogLog(lg, i, label, openOK) ==
    IF logPath[i] = NoPath \/ ~openOK
    THEN [lg EXCEPT !.panicked = TRUE, !.openFailed = TRUE]
    ELSE LET opened == [lg EXCEPT !.open = @ \cup {i}, !.out = logPath[i]]
             written == [opened EXCEPT !.writes =
                            Append(@, [by |-> i, medium |-> opened.out, level |-> label])]
         IN Closed(written, i)

\* The loop of a Stack method over s.loggers, from position k.
Forward(lg, s, method, level, openOK, k) ==
    IF lg.panicked \/ k > Len(loggers[s]) THEN lg
    ELSE IF loggers[s][k] = Nil THEN [lg EXCEPT !.panicked = TRUE]
    ELSE LET m == loggers[s][k]
             called == [lg EXCEPT !.calls =
                            Append(@, [by |-> s, to |-> m, method |-> method, level |-> level])]
         IN Forward(LogOp(called, m, method, level, openOK), s, method, level, openOK, k + 1)

\* Log and the severity methods of every Logger.
LogOp(lg, i, method, level, openOK) ==
    IF i \in FmtLogs THEN FmtLogLog(lg, i, LabelOf(method, level))
    ELSE IF i \in StdLogs THEN StdLogLog(lg, i, LabelOf(method, level))
    ELSE IF i \in FileLogs THEN FileLogLog(lg, i, LabelOf(method, level), openOK)
    ELSE Forward(lg, i, method, level, openOK, 1)

\* The threaded state at the start of a logging call.
Begin ==
    [out |-> logOutput, calls |-> <<>>, writes |-> <<>>,
     panicked |-> FALSE, openFailed |-> FALSE, open |-> {}]

\* ------------------------------------------------------------ the record of a call
NoCall ==
    [op |-> "new", target |-> Nil, args |-> <<>>, method |-> "", level |-> "",
     reported |-> "none", before |-> <<>>, inner |-> <<>>,
     inits |-> <<>>, errs |-> <<>>, cbRuns |-> <<>>, resets |-> <<>>,
     calls |-> <<>>, writes |-> <<>>, panicked |-> FALSE, openFailed |-> FALSE,
     open |-> {}]

\* The members, at the start of a call, of the stacks passed to it.
Inner(l) == [t \in Range(l) \cap Stacks |-> loggers[t]]

\* The record of a call that threaded st.
Setup(op, i, l, reported, st) ==
    [NoCall EXCEPT !.op = op, !.target = i, !.args = l, !.reported = reported,
                   !.before = IF op = "Add" THEN loggers[i] ELSE <<>>,
                   !.inner = IF op \in {"Add", "Set"} THEN Inner(l) ELSE <<>>,
                   !.inits = st.inits, !.errs = st.errs,
                   !.cbRuns = st.cbRuns, !.resets = st.resets]

\* ------------------------------------------------------------ goroutines
\* The goroutines that call Add on a shared stack without a lock.
Goroutines == {"g1", "g2"}

\* An Add call in progress:
\*   pc      "idle", then "read" (the Init loop is done), "write" (s.loggers
\*           has been read), "done" (s.loggers has been assigned)
\*   stack, args   the receiver and the arguments of the call
\*   read    the value of s.loggers the call read
\*   alone   history: no other goroutine was inside Add when the call began
NotAdding ==
    [pc |-> "idle", stack |-> Nil, args |-> <<>>, read |-> <<>>, alone |-> TRUE]

\* An append that drops what it read.
AppendedFresh(read, l) == l

\* append(s.loggers, l...) applied to the value read.
Appended(read, l) == read \o l

\* ------------------------------------------------------------ actions
Init ==
    /\ initializers = [i \in Insts |-> <<>>]
    /\ loggers = [s \in Stacks |-> <<>>]
    /\ logPath = [f \in FileLogs |-> NoPath]
    /\ logOutput = "stderr"
    /\ inited = [m \in Members |-> FALSE]
    /\ last = NoCall
    /\ adding = [g \in Goroutines |-> NotAdding]

\* OnInit keeping the callbacks registered before.
RegisteredAppend(old, f) == old \o f

\* The list OnInit leaves: make([]interface{}, 0), then append(..., f...).
Registered(old, f) == <<>> \o f

\* LogBase.OnInit
OnInit(i, f) ==
    /\ Cardinality({j \in Insts : j # i /\ initializers[j] # <<>>})
           + (IF f = <<>> THEN 0 ELSE 1) <= MaxConfigured
    /\ initializers' = [initializers EXCEPT ![i] = Registered(@, f)]
    /\ last' = [NoCall EXCEPT !.op = "OnInit", !.target = i, !.args = f]
    /\ UNCHANGED <<loggers, logPath, logOutput, inited, adding>>

\* A caller's own call of Init.
CallInit(i) ==
    LET st == InitOp(Enter, i)
    IN /\ loggers' = st.loggers
       /\ logPath' = st.logPath
       /\ inited' = st.inited
       /\ last' = Setup("Init", i, <<>>, st.err, st)
       /\ UNCHANGED <<initializers, logOutput, adding>>

\* A caller's call of Stack.Add; it has no return value.
Add(s, l) ==
    /\ Len(loggers[s]) + Len(l) <= MaxMembers
    /\ LET st == AddOp(Enter, s, l)
       IN /\ loggers' = st.loggers
          /\ logPath' = st.logPath
          /\ inited' = st.inited
          /\ last' = Setup("Add", s, l, "none", st)
    /\ UNCHANGED <<initializers, logOutput, adding>>

\* A caller's call of Stack.Set; it has no return value.
Set(s, l) ==
    /\ Len(l) <= MaxMembers
    /\ LET st == SetOp(Enter, s, l)
       IN /\ loggers' = st.loggers
          /\ logPath' = st.logPath
          /\ inited' = st.inited
          /\ last' = Setup("Set", s, l, "none", st)
    /\ UNCHANGED <<initializers, logOutput, adding>>

\* A caller's call of Log or of a severity method.
Log(i, method, level, openOK) ==
    LET lg == LogOp(Begin, i, method, level, openOK)
    IN /\ logOutput' = lg.out
       /\ last' = [NoCall EXCEPT !.op = "Log", !.target = i, !.method = method,
                                 !.level = level,
                                 !.calls = lg.calls, !.writes = lg.writes,
                                 !.panicked = lg.panicked,
                                 !.openFailed = lg.openFailed,
                                 !.open = lg.open]
       /\ UNCHANGED <<initializers, loggers, logPath, inited, adding>>

\* log.SetOutput(os.Stderr), as a caller does to get the standard logger back.
SetOutput ==
    /\ logOutput # "stderr"
    /\ logOutput' = "stderr"
    /\ last' = [NoCall EXCEPT !.op = "SetOutput"]
    /\ UNCHANGED <<initializers, loggers, logPath, inited, adding>>

\* The number of loggers the Add calls in progress in G have yet to append.
RECURSIVE Pending(_)
Pending(G) ==
    IF G = {} THEN 0
    ELSE LET h == CHOOSE x \in G : TRUE
         IN (IF adding[h].pc \in {"read", "write"} THEN Len(adding[h].args) ELSE 0)
            + Pending(G \ {h})

\* A goroutine enters Stack.Add and runs the Init loop over its arguments.
GoAdd(g, s, l) ==
    /\ adding[g].pc = "idle"
    /\ Len(loggers[s]) + Len(l) + Pending(Goroutines) <= MaxMembers
    /\ LET st == InitAll(Enter, l, 1)
       IN /\ loggers' = st.loggers
          /\ logPath' = st.logPath
          /\ inited' = st.inited
    /\ adding' = [adding EXCEPT ![g] =
                     [pc |-> "read", stack |-> s, args |-> l, read |-> <<>>,
                      alone |-> \A h \in Goroutines \ {g} :
                                   adding[h].pc \in {"idle", "done"}]]
    /\ UNCHANGED <<initializers, logOutput, last>>

\* The goroutine evaluates s.loggers, the first argument of append.
ReadMembers(g) ==
    /\ adding[g].pc = "read"
    /\ adding' = [adding EXCEPT ![g].pc = "write", ![g].read = loggers[adding[g].stack]]
    /\ UNCHANGED <<initializers, loggers, logPath, logOutput, inited, last>>

\* The goroutine assigns the result of append to s.loggers and returns.
WriteMembers(g) ==
    /\ adding[g].pc = "write"
    /\ loggers' = [loggers EXCEPT ![adding[g].stack] = Appended(adding[g].read, adding[g].args)]
    /\ adding' = [adding EXCEPT ![g].pc = "done"]
    /\ UNCHANGED <<initializers, logPath, logOutput, inited, last>>

\* The operations a caller performs on the instances W of a run.
Register(W) == \E i \in W : \E f \in CallbackLists(i) : OnInit(i, f)

Initialize(W) == \E i \in W : CallInit(i)

\* The argument lists a caller passes to Add and Set of each stack.
ArgLists ==
    [W \in {Used, Flat, Backends, Filed} |-> [s \in Stacks |-> SeqsUpTo(Candidates(s) \cap W, MaxArgs)]]

AddLoggers(W) == \E s \in Stacks \cap W : \E l \in ArgLists[W][s] : Add(s, l)

SetLoggers(W) == \E s \in Stacks \cap W : \E l \in ArgLists[W][s] : Set(s, l)

CallLog(W) ==
    \E i \in W : \E level \in Levels : \E openOK \in BOOLEAN : Log(i, "Log", level, openOK)

CallSeverity(W) ==
    \E i \in W : \E method \in Severities : \E openOK \in BOOLEAN : Log(i, method, "", openOK)

CallMethod(W) ==
    \E i \in W : \E method \in Methods : \E openOK \in BOOLEAN : Log(i, method, "", openOK)

\* Logging through stacks and backends on which no callback is registered.
Next ==
    \/ Initialize(Used)
    \/ AddLoggers(Used)
    \/ SetLoggers(Used)
    \/ CallLog(Used)
    \/ CallSeverity(Used)
    \/ SetOutput

Spec == Init /\ [][Next]_vars

\* The initialization protocol on one stack: callbacks, Init, Add and Set.
NextSetup ==
    \/ Register(Flat)
    \/ Initialize(Flat)
    \/ AddLoggers(Flat)
    \/ SetLoggers(Flat)

SpecSetup == Init /\ [][NextSetup]_vars

\* Callbacks and Init on every kind of logger, each on its own.
NextInit ==
    \/ Register(Insts)
    \/ Initialize(Insts)

SpecInit == Init /\ [][NextInit]_vars

\* Every severity method and Log, on every backend and on a stack of them.
NextLevels ==
    \/ Initialize(Backends)
    \/ AddLoggers(Backends)
    \/ SetLoggers(Backends)
    \/ CallLog(Backends)
    \/ CallMethod(Backends)
    \/ SetOutput

SpecLevels == Init /\ [][NextLevels]_vars

\* A file logger configured, initialized and written to, alone and on a stack.
NextFile ==
    \/ Register(Filed)
    \/ Initialize(Filed)
    \/ AddLoggers(Filed)
    \/ SetLoggers(Filed)
    \/ CallLog(Filed)
    \/ CallSeverity(Filed)

SpecFile == Init /\ [][NextFile]_vars

\* Add calls on one stack from goroutines that share it without a lock.  The
\* statement s.loggers = append(s.loggers, l...) is a read of s.loggers and
\* a later write of it; the steps of the goroutines interleave freely.
StartAdd(W) ==
    \E g \in Goroutines : \E s \in Stacks \cap W : \E l \in ArgLists[W][s] : GoAdd(g, s, l)

NextRace ==
    \/ StartAdd(Flat)
    \/ \E g \in Goroutines : ReadMembers(g)
    \/ \E g \in Goroutines : WriteMembers(g)

SpecRace == Init /\ [][NextRace]_vars

\* ------------------------------------------------------------ properties
\* Number of positions of seq holding x.
RECURSIVE Count(_, _)
Count(seq, x) ==
    IF seq = <<>> THEN 0
    ELSE (IF Head(seq) = x THEN 1 ELSE 0) + Count(Tail(seq), x)

\* The calls of cs that stack s forwarded, in order.
RECURSIVE CallsBy(_, _)
CallsBy(cs, s) ==
    IF cs = <<>> THEN <<>>
    ELSE IF Head(cs).by = s THEN <<Head(cs)>> \o CallsBy(Tail(cs), s)
    ELSE CallsBy(Tail(cs), s)

\* The number of calls of the last logging call that instance i received.
CallsTo(i) ==
    (IF last.target = i THEN 1 ELSE 0)
    + Cardinality({k \in DOMAIN last.calls : last.calls[k].to = i})

\* The number of lines instance i wrote to medium m in the last logging call.
LinesOf(i, m) ==
    Cardinality({k \in DOMAIN last.writes :
                    last.writes[k].by = i /\ last.writes[k].medium = m})

\* The last call passed a logger whose Init returned an error.
MemberInitFailed == \E k \in DOMAIN last.args : last.args[k] \in Range(last.errs)

\* C1: an Add call in which the Init of a passed logger fails leaves the
\* member sequence of the stack exactly as it was before the call.
C1_AddAtomicOnFailure ==
    (last.op = "Add" /\ MemberInitFailed) => loggers[last.target] = last.before

\* C2: an Add or Set call in which the Init of a member returns an error
\* reports that error to its caller.
C2_InitFailurePropagates ==
    (last.op \in {"Add", "Set"} /\ MemberInitFailed)
        => last.reported = InvalidCallbackSignature

\* C3: every logger a logging call is forwarded to by a stack has had its
\* Init invoked before the call.
C3_InitBeforeUse ==
    last.op = "Log" => \A k \in DOMAIN last.calls : inited[last.calls[k].to]

\* A stack has forwarded a logging call to two members, one of them nested.
C3_Witness ==
    /\ last.op = "Log"
    /\ Len(last.calls) >= 2
    /\ \E k \in DOMAIN last.calls : last.calls[k].by # last.target

\* C4: a logging call on a stack of N loggers, none of whose writes is
\* stopped by a file that cannot be opened, invokes the identical call once
\* on each member, in member order, and on nothing else.
C4_FanOutCountAndOrder ==
    (/\ last.op = "Log"
     /\ last.target \in Stacks
     /\ ~last.openFailed
     /\ Range(loggers[last.target]) \subseteq Insts)
        => CallsBy(last.calls, last.target) =
              [k \in DOMAIN loggers[last.target] |->
                  [by |-> last.target, to |-> loggers[last.target][k],
                   method |-> last.method, level |-> last.level]]

\* C5: in a logging call during which every file could be opened, each call
\* on a StdLog wrote one line to the system-log sink and each call on a
\* FileLog wrote one line to the file at its path.
C5_OneLineToOwnMedium ==
    (last.op = "Log" /\ ~last.openFailed)
        => /\ \A i \in StdLogs : LinesOf(i, "stderr") = CallsTo(i)
           /\ \A f \in FileLogs : LinesOf(f, logPath[f]) = CallsTo(f)

\* C6: a stack's Init leaves the member sequence empty right after the reset,
\* and on return the members are exactly the loggers its callbacks added.
C6_InitResetsMembers ==
    (last.op = "Init" /\ last.target \in Stacks)
        => /\ \A r \in DOMAIN last.resets :
                 last.resets[r][1] = last.target => Len(last.resets[r][2]) = 0
           /\ loggers[last.target] =
                 [k \in 1..Cardinality({r \in DOMAIN last.cbRuns :
                                           last.cbRuns[r][1] = last.target})
                     |-> CallbackLogger]

\* C7: a logging call on a stack to which no logger has been added returns
\* normally and writes nothing.
C7_EmptyStackNoOp ==
    (/\ last.op = "Log"
     /\ last.target \in Stacks
     /\ Range(loggers[last.target]) \cap Insts = {})
        => ~last.panicked /\ last.writes = <<>> /\ last.calls = <<>>

\* The logging call made on stack s in the current state, files opening.
NextLog(s) == LogOp(Begin, s, "Log", "custom level", TRUE)

\* C8: after Set(L) the member sequence is L, and the next logging call on
\* the stack reaches exactly the members of L.
C8_SetReplacesMembers ==
    last.op = "Set"
        => /\ loggers[last.target] = last.args
           /\ {c.to : c \in Range(CallsBy(NextLog(last.target).calls, last.target))}
                 = Range(last.args)

\* C9: no registered callback is invoked more than once on its instance.
C9_CallbackOnceOnly ==
    \A j, k \in DOMAIN last.cbRuns : last.cbRuns[j] = last.cbRuns[k] => j = k

\* The number of leading callbacks of instance i that its Init accepts.
RECURSIVE AcceptedFrom(_, _)
AcceptedFrom(i, k) ==
    IF k > Len(initializers[i]) \/ initializers[i][k] # Expected(i) THEN 0
    ELSE 1 + AcceptedFrom(i, k + 1)

\* C9 (amended): a call invokes each registered callback that no rejected
\* callback precedes once for every Init it invokes on the instance, and no
\* other callback; Add and Set invoke Init once for each position of their
\* argument.
C9_CallbackOncePerInit ==
    /\ \A i \in Used : \A k \in DOMAIN initializers[i] :
          Count(last.cbRuns, <<i, k>>) =
              IF k <= AcceptedFrom(i, 1) THEN Count(last.inits, i) ELSE 0
    /\ last.op \in {"Add", "Set"} =>
          \A i \in Used :
              Count(last.inits, i) >= Count(last.args, i)
    /\ last.op \in {"Add", "Set"} /\ last.cbRuns = <<>> => last.inits = last.args

\* One Add has invoked Init twice on an instance whose second callback is
\* rejected, and so its first callback twice.
C9_Witness ==
    /\ last.op = "Add"
    /\ \E i \in Used :
          /\ Count(last.args, i) = 2
          /\ Len(initializers[i]) = 2
          /\ Count(last.cbRuns, <<i, 1>>) = 2
          /\ i \in Range(last.errs)

\* The members a stack m holds for a logging call right after the last call:
\* those it had when it was passed to that call.
Held(m) == IF m \in DOMAIN last.inner THEN last.inner[m] ELSE loggers[m]

\* The calls of a depth-first fan-out over members l of stack s.
RECURSIVE DepthFirst(_, _)
DepthFirst(s, l) ==
    IF l = <<>> THEN <<>>
    ELSE <<[by |-> s, to |-> Head(l), method |-> "Log", level |-> "custom level"]>>
         \o (IF Head(l) \in Stacks THEN DepthFirst(Head(l), Held(Head(l))) ELSE <<>>)
         \o DepthFirst(s, Tail(l))

\* C10: after a stack that has members is added to an outer stack with Add
\* or Set, a logging call on the outer stack completes and reaches the
\* members of the inner stack once each, in order, at the inner stack's
\* position.
C10_NestedFanOut ==
    (/\ last.op \in {"Add", "Set"}
     /\ \E t \in DOMAIN last.inner :
           last.inner[t] # <<>> /\ Range(last.inner[t]) \subseteq Leaves
     /\ Range(loggers[last.target]) \subseteq Insts)
        => /\ ~NextLog(last.target).panicked
           /\ NextLog(last.target).calls = DepthFirst(last.target, loggers[last.target])

StatedShape(i) ==
    IF i \in FmtLogs THEN "FmtLog"
    ELSE IF i \in StdLogs THEN "StdLog"
    ELSE IF i \in FileLogs THEN "FileLog"
    ELSE "Logger"

\* The callbacks the last call invoked on instance i, in order.
RunsOn(i) ==
    LET On(r) == r[1] = i IN SelectSeq(last.cbRuns, On)

Labels == Methods \cup Levels

\* What a caller observes of a logging call: the lines written, the calls
\* forwarded to, the standard logger's output, and whether it panicked.
Observed(lg) ==
    [writes |-> lg.writes,
     reached |-> [k \in DOMAIN lg.calls |-> lg.calls[k].to],
     out |-> lg.out, panicked |-> lg.panicked]

\* C13: on every logger, each severity method does what Log does with the
\* label spelled as the method name, every line it writes carrying that
\* label; and every line a Log call writes carries the label passed to it.
C13_SeverityIsLogWithLabel ==
    \A i \in Insts : \A openOK \in BOOLEAN :
        /\ \A m \in Methods :
              LET bySeverity == LogOp(Begin, i, m, "", openOK)
                  byLog == LogOp(Begin, i, "Log", m, openOK)
              IN /\ Observed(bySeverity) = Observed(byLog)
                 /\ \A k \in DOMAIN bySeverity.writes : bySeverity.writes[k].level = m
        /\ \A label \in Labels :
              LET byLog == LogOp(Begin, i, "Log", label, openOK)
              IN \A k \in DOMAIN byLog.writes : byLog.writes[k].level = label
        /\ (last.op = "Log" /\ last.method # "Log")
              => \A k \in DOMAIN last.writes : last.writes[k].level = last.method

\* Debug called on a stack has written a line on a FmtLog member and a line
\* on a member of another kind.
C13_Witness ==
    /\ last.op = "Log"
    /\ last.method = "Debug"
    /\ last.target \in Stacks
    /\ {last.writes[k].by : k \in DOMAIN last.writes} \in
          {{f, s} : f \in FmtLogs, s \in StdLogs} \cup {{f, g} : f \in FmtLogs, g \in FileLogs}
    /\ \A k \in DOMAIN last.writes : last.writes[k].level = "Debug"

\* Instance i received a call in the last logging call.
Called(i) == last.op = "Log" /\ CallsTo(i) > 0

\* C14: at every Log call on a FileLog none of whose registered callbacks
\* sets the path, the path is the default one.
C14_DefaultPathWhenever ==
    \A f \in FileLogs :
        (Called(f) /\ "FileLog" \notin Range(initializers[f]))
            => logPath[f] = DefaultPath

\* C14 (amended): a call that invokes Init on a FileLog whose Init accepts
\* no callback leaves the default path, whatever the path was; a call that
\* invokes Init on it leaves the default path or the one a callback set; no
\* other call changes the path; and a Log call writes to the path as it is.
C14_DefaultPathAfterInit ==
    [][\A f \in FileLogs :
          /\ (f \in Range(last'.inits) /\ AcceptedFrom(f, 1) = 0)
                => logPath'[f] = DefaultPath
          /\ f \in Range(last'.inits) => logPath'[f] \in {DefaultPath, CustomPath}
          /\ f \notin Range(last'.inits) => logPath'[f] = logPath[f]
          /\ last'.op = "Log" =>
                \A k \in DOMAIN last'.writes :
                    last'.writes[k].by = f => last'.writes[k].medium = logPath[f]
      ]_vars

\* A stack has forwarded a call to a FileLog that carries no callback, and
\* the line went to the default path.
C14_Witness ==
    /\ last.op = "Log"
    /\ last.target \in Stacks
    /\ \E f \in FileLogs :
          /\ initializers[f] = <<>>
          /\ \E k \in DOMAIN last.writes :
                last.writes[k].by = f /\ last.writes[k].medium = DefaultPath

\* C15: when a call returns no FileLog holds an open file handle, each call
\* on a FileLog that opened its file has written one line to it, and a Log
\* call on a FileLog that cannot open its file panics and writes nothing.
C15_HandleScopedToWrite ==
    /\ last.open = {}
    /\ \A f \in FileLogs :
          /\ (Called(f) /\ ~last.openFailed) => LinesOf(f, logPath[f]) = CallsTo(f)
          /\ (Called(f) /\ last.target = f /\ last.openFailed)
                => last.panicked /\ last.writes = <<>>

\* A Log call on a FileLog has opened the file at its path, written a line
\* and returned.
C15_Witness ==
    /\ last.op = "Log"
    /\ last.target \in FileLogs
    /\ ~last.panicked
    /\ Len(last.writes) = 1
    /\ last.writes[1].medium = logPath[last.target]
    /\ last.open = {}

\* Goroutines g and h have both returned from an Add call on one stack.
BothAdded(g, h) ==
    /\ g # h
    /\ adding[g].pc = "done" /\ adding[h].pc = "done"
    /\ adding[g].stack = adding[h].stack

\* C16: when two Add calls on one stack have run one after the other, the
\* stack holds the loggers of both calls; when they have overlapped it holds
\* those of both or only those of one call.
C16_SerializedAddsKeepBoth ==
    \A g, h \in Goroutines :
        BothAdded(g, h) =>
            LET members == loggers[adding[g].stack]
                lg == adding[g].args
                lh == adding[h].args
            IN /\ members \in {lg \o lh, lh \o lg, lg, lh}
               /\ (adding[g].alone /\ adding[h].alone) => members \in {lg \o lh, lh \o lg}

\* Two overlapping Add calls have returned, and the stack lacks the logger
\* one of them added.
C16_Witness ==
    \E g, h \in Goroutines :
        /\ BothAdded(g, h)
        /\ adding[g].args # <<>>
        /\ loggers[adding[g].stack] = adding[g].args
        /\ \E x \in Range(adding[h].args) : x \notin Range(loggers[adding[g].stack])

\* The number of leading callbacks of instance i that have the stated shape.
RECURSIVE StatedPrefix(_, _)
StatedPrefix(i, k) ==
    IF k > Len(initializers[i]) \/ initializers[i][k] # StatedShape(i) THEN 0
    ELSE 1 + StatedPrefix(i, k + 1)

\* C17: when Init returns the invalid-signature error it has invoked exactly
\* the callbacks registered before the first wrong-shaped one, in order; a
\* FileLog's path is then the default one or the one such a callback set,
\* and a Stack's members are those of the reset followed by the loggers such
\* callbacks added.
C17_InitNotAllOrNothing ==
    (last.op = "Init" /\ last.reported = InvalidCallbackSignature) =>
        LET i == last.target
            n == StatedPrefix(i, 1)
        IN /\ n < Len(initializers[i])
           /\ RunsOn(i) = [k \in 1..n |-> <<i, k>>]
           /\ i \in FileLogs =>
                 logPath[i] = IF n = 0 THEN DefaultPath ELSE CustomPath
           /\ i \in Stacks =>
                 /\ \E r \in DOMAIN last.resets : last.resets[r][1] = i
                 /\ loggers[i] = ResetMembers \o [k \in 1..n |-> CallbackLogger]

\* Init of a FileLog has returned the error after the first of its two
\* callbacks set the path.
C17_Witness ==
    /\ last.op = "Init"
    /\ last.target \in FileLogs
    /\ last.reported = InvalidCallbackSignature
    /\ initializers[last.target] = <<"FileLog", "Logger">>
    /\ last.cbRuns = << <<last.target, 1>> >>
    /\ logPath[last.target] = CustomPath

====
